---- MODULE Spec2Model ----
(***************************************************************************)
(* Model of the Pontos indexing engine (crates/pontos/src/lib.rs):         *)
(* index_block_range, index_pending and the shared process_events          *)
(* pipeline.  Every await point of the source is one step of a task.       *)
(***************************************************************************)
EXTENDS Integers, Sequences, FiniteSets, TLC

\* ------------------------------------------------------------------ bounds
\* Largest value of the (scaled-down) unsigned block counter current_u64.
MaxU64 == 2
\* Number of transactions the simulated chain ever produces.
MaxTx == 3
\* Largest number of events one fetch returns.
MaxEvents == 2
\* In the concurrent specification: transactions the chain produces, and events
\* one fetch returns.
ConcTx == 1
ConcEvents == 1
\* In the concurrent specification: the largest block number a range names.
ConcBlock == 0

\* ------------------------------------------------------------- value sets
Blocks == 0..MaxU64
\* Block k of the chain carries timestamp TsOf(k).  Timestamps are epoch
\* seconds, far above any block number; the engine only compares them for
\* equality and with 0.
TsOf(k) == MaxU64 + 1 + k
Timestamps == {TsOf(k) : k \in 0..(MaxU64 + 1)}
Keys == Blocks \cup Timestamps
Txs == 1..MaxTx

Tasks == {"range", "pending", "pending2"}
NoTask == "none"

Versions == {"v_cur", "v_old"}
\* PontosConfig.indexer_version of the engine under study.
IndexerVersion == "v_cur"
ContractTypes == {"ERC721", "Other"}

NoInfo == [status |-> "None", version |-> "none"]
BlockInfos == {NoInfo} \cup [status : {"Processing", "Terminated"}, version : Versions]

EventList(n) == [i \in 1..n |-> i]
EventLists == {EventList(n) : n \in 0..MaxEvents}

VARIABLES
    store,      \* block status storage: Keys -> BlockInfos
    cache,      \* PendingBlockData: [timestamp, txs]
    cacheLock,  \* holder of pending_cache's write lock, or NoTask
    clsLock,    \* holder of collection_manager's write lock, or NoTask
    chain,      \* the simulated chain behind the StarknetClient
    pc,         \* position of each task
    res,        \* IndexerResult of each task's current/last call
    rng,        \* locals of index_block_range
    pend,       \* locals of index_pending
    pipe,       \* locals of process_events
    log,        \* calls made by index_pending in the current iteration
    plog,       \* calls process_events made for the event it is handling
    procCount   \* per transaction: times its events went through the pipeline

vars == <<store, cache, cacheLock, clsLock, chain, pc, res, rng, pend, pipe,
          log, plog, procCount>>

\* ------------------------------------------------------ storage managers
\* BlockManager (crate::managers), as described in the specification.
should_skip_indexing(st, n, version, do_force) ==
    /\ ~do_force
    /\ st[n].status = "Terminated"
    /\ st[n].version = version

set_block_info(st, n, version, status) ==
    [st EXCEPT ![n] = [status |-> status, version |-> version]]

clean_block(st, k) == [st EXCEPT ![k] = NoInfo]

update_last_pending_block(st, n, ts) ==
    [st EXCEPT ![n] = [status |-> "Terminated", version |-> IndexerVersion]]

\* PendingBlockData (crate::managers).
PendingBlockData_new == [timestamp |-> 0, txs |-> {}]
set_timestamp(c, ts) == [c EXCEPT !.timestamp = ts]
clear_tx_hashes(c) == [c EXCEPT !.txs = {}]
is_tx_processed(c, tx) == tx \in c.txs
add_tx_as_processed(c, tx) == [c EXCEPT !.txs = @ \cup {tx}]

\* ------------------------------------------------------------- locals
\* Per block, the calls index_block_range made for it ("has_events": the fetch
\* returned an event list for the block).
RangeOps == {"on_block_processing", "set_processing", "block_time", "fetch_events",
             "has_events", "process_events", "set_terminated", "on_terminated"}

NoRange == [from |-> 0, to |-> 0, cur |-> 0, force |-> FALSE, bts |-> 0,
            groups |-> <<>>, did |-> [n \in Blocks |-> {}], again |-> FALSE,
            failed |-> "none", last |-> -1, asc |-> TRUE]

\* iter: 1 in the first iteration of a call, 2 in the later ones; slept,
\* desynced, resumed: how the iteration before this one ended.
NoPend == [ts |-> 0, txs |-> <<>>, bn |-> 0, lts |-> 0, ltxs |-> <<>>,
           i |-> 0, tx |-> 0, rolled |-> FALSE, cache0 |-> PendingBlockData_new,
           desynced |-> FALSE, failedPrev |-> {}, slept |-> FALSE, iter |-> 0,
           resumed |-> FALSE]

\* seen: the events handed to identify_contract so far; firstFail: the first
\* event of the list on which a stage failed (0: none yet).
NoPipe == [all |-> <<>>, evs |-> <<>>, ev |-> 0, ctype |-> "none", te |-> 0,
           bn |-> 0, ts |-> 0, ret |-> "none", result |-> "none",
           seen |-> <<>>, firstFail |-> 0]

StageFailed(p) == [p EXCEPT !.firstFail = IF @ = 0 THEN p.ev ELSE @]

Did(t, n, op) == [rng[t] EXCEPT !.did[n] = @ \cup {op}]

\* The loop body is entered for block r.cur (current_u64 <= to_u64): last is the
\* block visited, asc tells whether every visit so far went to a larger number
\* than the visit before it.
Visit(r) == [r EXCEPT !.last = r.cur, !.asc = r.asc /\ r.cur > r.last]

\* ------------------------------------------------- process_events (294-351)
\* Entry of process_events(events, block_number, block_timestamp); the caller
\* resumes at ret once it returns.
process_events(t, events, bn, ts, ret) ==
    /\ pipe' = [pipe EXCEPT ![t] = [NoPipe EXCEPT !.all = events, !.evs = events,
                                       !.bn = bn, !.ts = ts, !.ret = ret]]
    /\ plog' = [plog EXCEPT ![t] = <<>>]

\* `for e in events` is exhausted: Ok(()).
PE_Return(t) ==
    /\ pc[t] = "pe_loop"
    /\ pipe[t].evs = <<>>
    /\ pc' = [pc EXCEPT ![t] = pipe[t].ret]
    /\ pipe' = [pipe EXCEPT ![t].result = "ok"]
    /\ plog' = [plog EXCEPT ![t] = <<>>]
    /\ UNCHANGED <<store, cache, cacheLock, clsLock, chain, res, rng, pend, log, procCount>>

\* Variant: the classifier is entered without waiting for its lock.
PE_Acquire_NoWait(t) ==
    /\ pc[t] = "pe_loop"
    /\ pipe[t].evs # <<>>
    /\ clsLock' = t
    /\ pipe' = [pipe EXCEPT ![t].ev = Head(pipe[t].evs), ![t].evs = Tail(pipe[t].evs),
                            ![t].ctype = "none", ![t].te = 0]
    /\ plog' = [plog EXCEPT ![t] = <<>>]
    /\ pc' = [pc EXCEPT ![t] = "pe_identify"]
    /\ UNCHANGED <<store, cache, cacheLock, chain, res, rng, pend, log, procCount>>

\* Next event: self.collection_manager.write().await
PE_Acquire(t) ==
    /\ pc[t] = "pe_loop"
    /\ pipe[t].evs # <<>>
    /\ clsLock = NoTask
    /\ clsLock' = t
    /\ pipe' = [pipe EXCEPT ![t].ev = Head(pipe[t].evs), ![t].evs = Tail(pipe[t].evs),
                            ![t].ctype = "none", ![t].te = 0]
    /\ plog' = [plog EXCEPT ![t] = <<>>]
    /\ pc' = [pc EXCEPT ![t] = "pe_identify"]
    /\ UNCHANGED <<store, cache, cacheLock, chain, res, rng, pend, log, procCount>>

\* Variant: the ContractType::Other test of line 321 is missing.
AfterIdentify_NoOtherTest(r) == IF r = "Err" THEN "pe_loop" ELSE "pe_register"

\* Where the pipeline goes after identify_contract answered r ("Err" or a type).
AfterIdentify(r) == IF r = "Err" \/ r = "Other" THEN "pe_loop" ELSE "pe_register"

\* identify_contract(contract_address, block_number).await; the write guard is a
\* temporary of the statement and is dropped with it.
PE_Identify(t) ==
    /\ pc[t] = "pe_identify"
    /\ clsLock = t
    /\ \E r \in {"Err"} \cup ContractTypes :
        /\ plog' = [plog EXCEPT ![t] = Append(@, <<"identify", pipe[t].ev, r>>)]
        /\ pipe' = [pipe EXCEPT ![t] =
                       [(IF r = "Err" THEN StageFailed(pipe[t]) ELSE pipe[t])
                          EXCEPT !.ctype = r, !.seen = Append(@, pipe[t].ev)]]
        /\ pc' = [pc EXCEPT ![t] = AfterIdentify(r)]
    /\ clsLock' = NoTask
    /\ UNCHANGED <<store, cache, cacheLock, chain, res, rng, pend, log, procCount>>

\* Variant: the registration error is propagated with `?` instead of skipped.
RegisterFailed_Propagates(t) ==
    /\ pc' = [pc EXCEPT ![t] = pipe[t].ret]
    /\ pipe' = [pipe EXCEPT ![t] = [StageFailed(pipe[t]) EXCEPT !.result = "storage"]]

\* Outcome of a failed format_and_register_event: log and `continue`.
RegisterFailed(t) ==
    /\ pc' = [pc EXCEPT ![t] = "pe_loop"]
    /\ pipe' = [pipe EXCEPT ![t] = StageFailed(pipe[t])]

\* format_and_register_event(&e, contract_type, block_timestamp).await
PE_Register(t) ==
    /\ pc[t] = "pe_register"
    /\ \/ /\ plog' = [plog EXCEPT ![t] = Append(@, <<"register", pipe[t].ev, "Ok">>)]
          /\ pipe' = [pipe EXCEPT ![t].te = pipe[t].ev]
          /\ pc' = [pc EXCEPT ![t] = "pe_token"]
       \/ /\ plog' = [plog EXCEPT ![t] = Append(@, <<"register", pipe[t].ev, "Err">>)]
          /\ RegisterFailed(t)
    /\ UNCHANGED <<store, cache, cacheLock, clsLock, chain, res, rng, pend, log, procCount>>

\* format_and_register_token(&token_event).await; Ok and Err both go on.
PE_Token(t) ==
    /\ pc[t] = "pe_token"
    /\ \E r \in {"Ok", "Err"} :
        /\ plog' = [plog EXCEPT ![t] = Append(@, <<"token", pipe[t].te, r>>)]
        /\ pipe' = [pipe EXCEPT ![t] = IF r = "Err" THEN StageFailed(pipe[t]) ELSE pipe[t]]
    /\ pc' = [pc EXCEPT ![t] = "pe_loop"]
    /\ UNCHANGED <<store, cache, cacheLock, clsLock, chain, res, rng, pend, log, procCount>>

\* -------------------------------------------- index_block_range (216-291)
\* Return from a public operation with result r.
Return(t, r, done) ==
    /\ pc' = [pc EXCEPT ![t] = done]
    /\ res' = [res EXCEPT ![t] = r]

\* The call and the two block_id_to_u64 resolutions (222-223).
IBR_Call(t) ==
    /\ pc[t] \in {"r_idle", "r_done"}
    /\ \/ \E f \in Blocks, to \in Blocks, force \in BOOLEAN :
            /\ rng' = [rng EXCEPT ![t] =
                         [NoRange EXCEPT !.from = f, !.to = to, !.cur = f, !.force = force,
                                         !.again = /\ pc[t] = "r_done"
                                                   /\ res[t] = "ok"
                                                   /\ ~rng[t].force
                                                   /\ rng[t].from = f /\ rng[t].to = to]]
            /\ pc' = [pc EXCEPT ![t] = "r_loop"]
            /\ res' = [res EXCEPT ![t] = "none"]
       \/ /\ rng' = [rng EXCEPT ![t] = [NoRange EXCEPT !.failed = "block_id_to_u64"]]
          /\ Return(t, "anyhow", "r_done")
    /\ UNCHANGED <<store, cache, cacheLock, clsLock, chain, pend, pipe, log, plog, procCount>>

\* current_u64 > to_u64: break, Ok(()) (228-231, 290).
IBR_Break(t) ==
    /\ pc[t] = "r_loop"
    /\ rng[t].cur > rng[t].to
    /\ Return(t, "ok", "r_done")
    /\ UNCHANGED <<store, cache, cacheLock, clsLock, chain, rng, pend, pipe, log, plog, procCount>>

\* current_u64 += 1 on the unsigned counter: at the largest value a debug build
\* panics and a release build wraps to 0.
Advance(t, r) ==
    IF r.cur < MaxU64
    THEN /\ rng' = [rng EXCEPT ![t] = [r EXCEPT !.cur = r.cur + 1]]
         /\ pc' = [pc EXCEPT ![t] = "r_loop"]
    ELSE \/ /\ rng' = [rng EXCEPT ![t] = [r EXCEPT !.cur = 0]]
            /\ pc' = [pc EXCEPT ![t] = "r_loop"]
         \/ /\ rng' = [rng EXCEPT ![t] = r]
            /\ pc' = [pc EXCEPT ![t] = "r_panic"]

\* Variant: do_force is not passed on to the skip decision.
ShouldSkip_IgnoresForce(t) ==
    should_skip_indexing(store, rng[t].cur, IndexerVersion, FALSE)

\* Variant: the skip decision is taken as if the caller always forced.
ShouldSkip_AlwaysForced(t) ==
    should_skip_indexing(store, rng[t].cur, IndexerVersion, TRUE)

\* The skip decision of the loop (235), from the engine's version and do_force.
ShouldSkip(t) ==
    should_skip_indexing(store, rng[t].cur, IndexerVersion, rng[t].force)

\* should_skip_indexing answered true: advance, nothing else (233-240).
IBR_Skip(t) ==
    /\ pc[t] = "r_loop"
    /\ rng[t].cur <= rng[t].to
    /\ ShouldSkip(t)
    /\ Advance(t, Visit(rng[t]))
    /\ UNCHANGED <<store, cache, cacheLock, clsLock, chain, res, pend, pipe, log, plog, procCount>>

\* Variant: a failed status read is swallowed and the block is processed.
IBR_SkipErr_Swallowed(t) ==
    /\ pc[t] = "r_loop"
    /\ rng[t].cur <= rng[t].to
    /\ pc' = [pc EXCEPT ![t] = "r_processing"]
    /\ rng' = [rng EXCEPT ![t] = [Visit(rng[t]) EXCEPT !.failed = "should_skip_indexing"]]
    /\ UNCHANGED <<store, cache, cacheLock, clsLock, chain, res, pend, pipe, log, plog, procCount>>

\* should_skip_indexing failed with a StorageError: `?` returns it (236).
IBR_SkipErr(t) ==
    /\ pc[t] = "r_loop"
    /\ rng[t].cur <= rng[t].to
    /\ Return(t, "storage", "r_done")
    /\ rng' = [rng EXCEPT ![t] = [Visit(rng[t]) EXCEPT !.failed = "should_skip_indexing"]]
    /\ UNCHANGED <<store, cache, cacheLock, clsLock, chain, pend, pipe, log, plog, procCount>>

\* Not skipped: on_block_processing(current_u64) (242).
IBR_Begin(t) ==
    /\ pc[t] = "r_loop"
    /\ rng[t].cur <= rng[t].to
    /\ ~ShouldSkip(t)
    /\ rng' = [rng EXCEPT ![t] = Visit(Did(t, rng[t].cur, "on_block_processing"))]
    /\ pc' = [pc EXCEPT ![t] = "r_processing"]
    /\ UNCHANGED <<store, cache, cacheLock, clsLock, chain, res, pend, pipe, log, plog, procCount>>

\* Variant: the opening status write is left out.
WriteProcessing_Unwritten(t) == store

\* What a successful Processing write leaves in storage (245-252).
WriteProcessing(t) ==
    set_block_info(store, rng[t].cur, IndexerVersion, "Processing")

\* set_block_info(.., Processing).await? (245-252).
IBR_SetProcessing(t) ==
    /\ pc[t] = "r_processing"
    /\ \/ /\ store' = WriteProcessing(t)
          /\ rng' = [rng EXCEPT ![t] = Did(t, rng[t].cur, "set_processing")]
          /\ pc' = [pc EXCEPT ![t] = "r_block_time"]
          /\ res' = res
       \/ /\ Return(t, "storage", "r_done")
          /\ rng' = [rng EXCEPT ![t].failed = "set_block_info"]
          /\ store' = store
    /\ UNCHANGED <<cache, cacheLock, clsLock, chain, pend, pipe, log, plog, procCount>>

\* client.block_time(BlockId::Number(current_u64)).await? (254).
IBR_BlockTime(t) ==
    /\ pc[t] = "r_block_time"
    /\ \/ /\ rng' = [rng EXCEPT ![t] = [Did(t, rng[t].cur, "block_time")
                                          EXCEPT !.bts = TsOf(rng[t].cur)]]
          /\ pc' = [pc EXCEPT ![t] = "r_fetch_events"]
          /\ res' = res
       \/ /\ Return(t, "anyhow", "r_done")
          /\ rng' = [rng EXCEPT ![t].failed = "block_time"]
    /\ UNCHANGED <<store, cache, cacheLock, clsLock, chain, pend, pipe, log, plog, procCount>>

\* client.fetch_events(n, n, keys_selector()).await? (256-263): a map holding
\* the events of block n under its key, or nothing for a block without events.
IBR_FetchEvents(t) ==
    /\ pc[t] = "r_fetch_events"
    /\ \/ /\ \E g \in {<<>>} \cup {<<evs>> : evs \in EventLists} :
                rng' = [rng EXCEPT ![t] =
                          [Did(t, rng[t].cur, "fetch_events")
                             EXCEPT !.groups = g,
                                    !.did[rng[t].cur] =
                                        IF g = <<>> THEN @ ELSE @ \cup {"has_events"}]]
          /\ pc' = [pc EXCEPT ![t] = "r_events"]
          /\ res' = res
       \/ /\ Return(t, "anyhow", "r_done")
          /\ rng' = [rng EXCEPT ![t].failed = "fetch_events"]
    /\ UNCHANGED <<store, cache, cacheLock, clsLock, chain, pend, pipe, log, plog, procCount>>

\* `for (_, events) in blocks_events`: process_events(events, n, block_ts) (271-273).
IBR_ProcessEvents(t) ==
    /\ pc[t] = "r_events"
    /\ rng[t].groups # <<>>
    /\ process_events(t, Head(rng[t].groups), rng[t].cur, rng[t].bts, "r_events_ret")
    /\ rng' = [rng EXCEPT ![t] = [Did(t, rng[t].cur, "process_events")
                                     EXCEPT !.groups = Tail(rng[t].groups)]]
    /\ pc' = [pc EXCEPT ![t] = "pe_loop"]
    /\ UNCHANGED <<store, cache, cacheLock, clsLock, chain, res, pend, log, procCount>>

\* process_events(..).await? returned (272); its frame is gone.
IBR_EventsRet(t) ==
    /\ pc[t] = "r_events_ret"
    /\ IF pipe[t].result = "ok"
       THEN pc' = [pc EXCEPT ![t] = "r_events"] /\ res' = res
       ELSE Return(t, pipe[t].result, "r_done")
    /\ rng' = [rng EXCEPT ![t].failed = IF pipe[t].result = "ok" THEN @ ELSE "process_events"]
    /\ pipe' = [pipe EXCEPT ![t] = NoPipe]
    /\ UNCHANGED <<store, cache, cacheLock, clsLock, chain, pend, log, plog, procCount>>

\* Variant: the closing write repeats the Processing status.
WriteTerminated_Processing(t) ==
    set_block_info(store, rng[t].cur, IndexerVersion, "Processing")

\* What a successful Terminated write leaves in storage (275-282).
WriteTerminated(t) ==
    set_block_info(store, rng[t].cur, IndexerVersion, "Terminated")

\* set_block_info(.., Terminated).await?, on_terminated, current_u64 += 1 (275-287).
IBR_SetTerminated(t) ==
    /\ pc[t] = "r_events"
    /\ rng[t].groups = <<>>
    /\ \/ /\ store' = WriteTerminated(t)
          /\ Advance(t, [Did(t, rng[t].cur, "set_terminated")
                           EXCEPT !.did[rng[t].cur] = @ \cup {"on_terminated"}])
          /\ res' = res
       \/ /\ Return(t, "storage", "r_done")
          /\ rng' = [rng EXCEPT ![t].failed = "set_block_info"]
          /\ store' = store
    /\ UNCHANGED <<cache, cacheLock, clsLock, chain, pend, pipe, log, plog, procCount>>

RangeStep(t) ==
    \/ IBR_Call(t) \/ IBR_Break(t) \/ IBR_Skip(t) \/ IBR_SkipErr(t) \/ IBR_Begin(t)
    \/ IBR_SetProcessing(t) \/ IBR_BlockTime(t) \/ IBR_FetchEvents(t)
    \/ IBR_ProcessEvents(t) \/ IBR_EventsRet(t) \/ IBR_SetTerminated(t)

PipeStep(t) == PE_Return(t) \/ PE_Acquire(t) \/ PE_Identify(t) \/ PE_Register(t) \/ PE_Token(t)

\* ------------------------------------------------ the simulated chain
\* A transaction enters the pending block (blk: the timestamp of the block each
\* transaction belongs to, 0 while it does not exist).
Chain_AddTx ==
    /\ chain.next <= MaxTx
    /\ chain' = [chain EXCEPT !.ptxs = Append(@, chain.next), !.next = @ + 1,
                              !.blk[chain.next] = chain.pts]

\* The pending block seals: it becomes the latest block, with the next number,
\* and a new empty pending block with a later timestamp opens.
Chain_Seal ==
    /\ chain.num < MaxU64
    /\ chain' = [num |-> chain.num + 1, lts |-> chain.pts, ltxs |-> chain.ptxs,
                 pts |-> TsOf(chain.num + 2), ptxs |-> <<>>, next |-> chain.next,
                 blk |-> chain.blk]

\* The chain moves on its own; its state is observed only by the three reads
\* of index_pending, so it is stepped while a task is about to make one.
ChainStep ==
    /\ \E t \in Tasks : pc[t] \in {"p_poll", "p_blocknum", "p_latest"}
    /\ Chain_AddTx \/ Chain_Seal
    /\ UNCHANGED <<store, cache, cacheLock, clsLock, pc, res, rng, pend, pipe,
                   log, plog, procCount>>

\* ------------------------------------------------- index_pending (87-208)
Logged(t, op, tx, bn, ts) == [log EXCEPT ![t] = Append(@, <<op, tx, bn, ts>>)]
Counted(tx) == [procCount EXCEPT ![tx] = IF @ < 2 THEN @ + 1 ELSE @]

\* The iteration logged in l ended on the cleanup path of lines 129-136.
EndedInCleanup(l) == l # <<>> /\ l[Len(l)][1] = "clean_block"
\* The transactions whose events_from_tx_receipt failed in the iteration logged in l.
FailedFetches(l) == {l[i][2] : i \in {j \in 1..Len(l) : l[j][1] = "events_from_tx_receipt_err"}}

\* The iteration logged in l ended in the sleep of line 206.
EndedInSleep(l) == l # <<>> /\ l[Len(l)][1] = "sleep"
\* The iteration logged in l found the latest block to be the block c tracks
\* and did not get to update_last_pending_block.
AbortedRollover(l, c) ==
    /\ \E i \in 1..Len(l) : l[i][1] = "block_txs_hashes_latest" /\ l[i][4] = c.timestamp
    /\ \A i \in 1..Len(l) : l[i][1] # "update_last_pending_block"

\* An error leaves index_pending: the write guard is dropped, the cache stays.
IP_Return(t, r) ==
    /\ Return(t, r, "p_done")
    /\ cacheLock' = NoTask

\* A call of index_pending, the first or one after an error return.
IP_Call(t) ==
    /\ pc[t] \in {"p_idle", "p_done"}
    /\ pc' = [pc EXCEPT ![t] = "p_lock"]
    /\ res' = [res EXCEPT ![t] = "none"]
    /\ pend' = [pend EXCEPT ![t].iter = 0]
    /\ UNCHANGED <<store, cache, cacheLock, clsLock, chain, rng, pipe, log, plog, procCount>>

\* Variant: the iteration starts without waiting for the cache lock.
IP_Lock_NoWait(t) ==
    /\ pc[t] = "p_lock"
    /\ cacheLock' = t
    /\ pend' = [pend EXCEPT ![t] =
                   [NoPend EXCEPT !.cache0 = cache,
                                  !.desynced = EndedInCleanup(log[t]),
                                  !.failedPrev = FailedFetches(log[t]),
                                  !.slept = EndedInSleep(log[t]),
                                  !.iter = IF pend[t].iter = 0 THEN 1 ELSE 2,
                                  !.resumed = AbortedRollover(log[t], cache)]]
    /\ log' = [log EXCEPT ![t] = <<>>]
    /\ pc' = [pc EXCEPT ![t] = "p_poll"]
    /\ UNCHANGED <<store, cache, clsLock, chain, res, rng, pipe, plog, procCount>>

\* Top of an iteration: self.pending_cache.write().await (89).
IP_Lock(t) ==
    /\ pc[t] = "p_lock"
    /\ cacheLock = NoTask
    /\ cacheLock' = t
    /\ pend' = [pend EXCEPT ![t] =
                   [NoPend EXCEPT !.cache0 = cache,
                                  !.desynced = EndedInCleanup(log[t]),
                                  !.failedPrev = FailedFetches(log[t]),
                                  !.slept = EndedInSleep(log[t]),
                                  !.iter = IF pend[t].iter = 0 THEN 1 ELSE 2,
                                  !.resumed = AbortedRollover(log[t], cache)]]
    /\ log' = [log EXCEPT ![t] = <<>>]
    /\ pc' = [pc EXCEPT ![t] = "p_poll"]
    /\ UNCHANGED <<store, cache, clsLock, chain, res, rng, pipe, plog, procCount>>

\* Variant: the observed timestamp is taken over whatever the cache tracks.
Adopted_Always(c, ts) == set_timestamp(c, ts)

\* The cache after the adoption of lines 100-102.
Adopted(c, ts) == IF c.timestamp = 0 THEN set_timestamp(c, ts) ELSE c

\* block_txs_hashes(Pending).await?, adoption, and the rollover test (91-109).
IP_Poll(t) ==
    /\ pc[t] = "p_poll"
    /\ \/ /\ cache' = Adopted(cache, chain.pts)
          /\ pend' = [pend EXCEPT ![t].ts = chain.pts, ![t].txs = chain.ptxs,
                                  ![t].bn = chain.pts, ![t].i = 1]
          /\ log' = Logged(t, "block_txs_hashes_pending", 0, 0, chain.pts)
          /\ pc' = [pc EXCEPT ![t] = IF chain.pts # cache'.timestamp
                                      THEN "p_blocknum" ELSE "p_pending_loop"]
          /\ UNCHANGED <<res, cacheLock>>
       \/ /\ IP_Return(t, "anyhow")
          /\ UNCHANGED <<cache, pend, log>>
    /\ UNCHANGED <<store, clsLock, chain, rng, pipe, plog, procCount>>

\* block_number().await? (113).
IP_BlockNumber(t) ==
    /\ pc[t] = "p_blocknum"
    /\ \/ /\ pend' = [pend EXCEPT ![t].bn = chain.num]
          /\ log' = Logged(t, "block_number", 0, chain.num, 0)
          /\ pc' = [pc EXCEPT ![t] = "p_latest"]
          /\ UNCHANGED <<res, cacheLock>>
       \/ /\ IP_Return(t, "anyhow")
          /\ UNCHANGED <<pend, log>>
    /\ UNCHANGED <<store, cache, clsLock, chain, rng, pipe, plog, procCount>>

\* Variant: the mismatch test of line 122 is missing.
IP_Latest_NoMismatchTest(t) ==
    /\ pc[t] = "p_latest"
    /\ \/ /\ pend' = [pend EXCEPT ![t].lts = chain.lts, ![t].ltxs = chain.ltxs, ![t].i = 1]
          /\ log' = Logged(t, "block_txs_hashes_latest", 0, 0, chain.lts)
          /\ pc' = [pc EXCEPT ![t] = "p_latest_loop"]
          /\ UNCHANGED <<res, cacheLock>>
       \/ /\ IP_Return(t, "anyhow")
          /\ UNCHANGED <<pend, log>>
    /\ UNCHANGED <<store, cache, clsLock, chain, rng, pipe, plog, procCount>>

\* block_txs_hashes(Latest).await? and the mismatch test (114-122).
IP_Latest(t) ==
    /\ pc[t] = "p_latest"
    /\ \/ /\ pend' = [pend EXCEPT ![t].lts = chain.lts, ![t].ltxs = chain.ltxs, ![t].i = 1]
          /\ log' = Logged(t, "block_txs_hashes_latest", 0, 0, chain.lts)
          /\ pc' = [pc EXCEPT ![t] = IF chain.lts # cache.timestamp
                                      THEN "p_clean" ELSE "p_latest_loop"]
          /\ UNCHANGED <<res, cacheLock>>
       \/ /\ IP_Return(t, "anyhow")
          /\ UNCHANGED <<pend, log>>
    /\ UNCHANGED <<store, cache, clsLock, chain, rng, pipe, plog, procCount>>

\* Variant: the reset forgets clear_tx_hashes.
Reset_KeepsHashes(c) == set_timestamp(c, 0)

\* The cache after the reset of lines 134-135.
Reset(c) == clear_tx_hashes(set_timestamp(c, 0))

\* Mismatch: clean_block(cache.get_timestamp()).await?, reset, `continue` (129-136).
\* The guard is dropped with the iteration; the sleep of line 206 is not reached.
IP_Clean(t) ==
    /\ pc[t] = "p_clean"
    /\ \/ /\ store' = clean_block(store, cache.timestamp)
          /\ log' = Logged(t, "clean_block", 0, 0, cache.timestamp)
          /\ cache' = Reset(cache)
          /\ cacheLock' = NoTask
          /\ pc' = [pc EXCEPT ![t] = "p_lock"]
          /\ res' = res
       \/ /\ IP_Return(t, "storage")
          /\ UNCHANGED <<store, cache, log>>
    /\ UNCHANGED <<clsLock, chain, rng, pend, pipe, plog, procCount>>

\* Variant: the failure is logged and skipped, as in the pending loop.
LatestFetchFailed_Skips(t, tx) ==
    /\ log' = Logged(t, "events_from_tx_receipt_err", tx, pend[t].bn, pend[t].lts)
    /\ pend' = [pend EXCEPT ![t].i = @ + 1]
    /\ UNCHANGED <<pc, res, cache, cacheLock, pipe, plog, procCount>>

\* Variant: the error return drops the hashes processed so far.
LatestFetchFailed_ForgetsHashes(t, tx) ==
    /\ log' = Logged(t, "events_from_tx_receipt_err", tx, pend[t].bn, pend[t].lts)
    /\ IP_Return(t, "anyhow")
    /\ cache' = clear_tx_hashes(cache)
    /\ UNCHANGED <<pend, pipe, plog, procCount>>

\* What a failed events_from_tx_receipt does in the latest-block loop (149-159).
LatestFetchFailed(t, tx) ==
    /\ log' = Logged(t, "events_from_tx_receipt_err", tx, pend[t].bn, pend[t].lts)
    /\ IP_Return(t, "anyhow")
    /\ UNCHANGED <<cache, pend, pipe, plog, procCount>>

\* One turn of `for tx_hash in txs` over the latest block (140-162).
IP_LatestTx(t) ==
    /\ pc[t] = "p_latest_loop"
    /\ pend[t].i <= Len(pend[t].ltxs)
    /\ LET tx == pend[t].ltxs[pend[t].i] IN
       IF is_tx_processed(cache, tx)
       THEN /\ pend' = [pend EXCEPT ![t].i = @ + 1]
            /\ UNCHANGED <<pc, res, cache, cacheLock, log, pipe, plog, procCount>>
       ELSE \/ \E evs \in EventLists :
                 /\ log' = Logged(t, "events_from_tx_receipt", tx, pend[t].bn, pend[t].lts)
                 /\ process_events(t, evs, pend[t].bn, pend[t].lts, "p_latest_ret")
                 /\ procCount' = Counted(tx)
                 /\ pend' = [pend EXCEPT ![t].tx = tx]
                 /\ pc' = [pc EXCEPT ![t] = "pe_loop"]
                 /\ UNCHANGED <<res, cache, cacheLock>>
            \/ LatestFetchFailed(t, tx)
    /\ UNCHANGED <<store, clsLock, chain, rng>>

\* process_events(..).await? returned; add_tx_as_processed (146-147).
IP_LatestRet(t) ==
    /\ pc[t] = "p_latest_ret"
    /\ IF pipe[t].result = "ok"
       THEN /\ cache' = add_tx_as_processed(cache, pend[t].tx)
            /\ pend' = [pend EXCEPT ![t].i = @ + 1]
            /\ pc' = [pc EXCEPT ![t] = "p_latest_loop"]
            /\ UNCHANGED <<res, cacheLock>>
       ELSE /\ IP_Return(t, pipe[t].result)
            /\ UNCHANGED <<cache, pend>>
    /\ pipe' = [pipe EXCEPT ![t] = NoPipe]
    /\ UNCHANGED <<store, clsLock, chain, rng, log, plog, procCount>>

\* Variant: the switch forgets clear_tx_hashes.
Switched_KeepsHashes(c, ts) == set_timestamp(c, ts)

\* The cache once the rollover is resolved (176-177).
Switched(c, ts) == clear_tx_hashes(set_timestamp(c, ts))

\* Variant: `block_number = ts` of line 178 is missing.
IP_Update_KeepsNumber(t) ==
    /\ pc[t] = "p_latest_loop"
    /\ pend[t].i > Len(pend[t].ltxs)
    /\ \/ /\ store' = update_last_pending_block(store, pend[t].bn, pend[t].lts)
          /\ log' = Logged(t, "update_last_pending_block", 0, pend[t].bn, pend[t].lts)
          /\ cache' = Switched(cache, pend[t].ts)
          /\ pend' = [pend EXCEPT ![t].i = 1, ![t].rolled = TRUE]
          /\ pc' = [pc EXCEPT ![t] = "p_pending_loop"]
          /\ UNCHANGED <<res, cacheLock>>
       \/ /\ IP_Return(t, "storage")
          /\ UNCHANGED <<store, cache, pend, log>>
    /\ UNCHANGED <<clsLock, chain, rng, pipe, plog, procCount>>

\* update_last_pending_block(block_number, latest_ts).await?, then the switch
\* to the observed pending block (164-178).
IP_Update(t) ==
    /\ pc[t] = "p_latest_loop"
    /\ pend[t].i > Len(pend[t].ltxs)
    /\ \/ /\ store' = update_last_pending_block(store, pend[t].bn, pend[t].lts)
          /\ log' = Logged(t, "update_last_pending_block", 0, pend[t].bn, pend[t].lts)
          /\ cache' = Switched(cache, pend[t].ts)
          /\ pend' = [pend EXCEPT ![t].bn = pend[t].ts, ![t].i = 1, ![t].rolled = TRUE]
          /\ pc' = [pc EXCEPT ![t] = "p_pending_loop"]
          /\ UNCHANGED <<res, cacheLock>>
       \/ /\ IP_Return(t, "storage")
          /\ UNCHANGED <<store, cache, pend, log>>
    /\ UNCHANGED <<clsLock, chain, rng, pipe, plog, procCount>>

\* Variant: the failure is propagated, as in the latest-block loop.
PendingFetchFailed_Fatal(t, tx) ==
    /\ log' = Logged(t, "events_from_tx_receipt_err", tx, pend[t].bn, cache.timestamp)
    /\ IP_Return(t, "anyhow")
    /\ UNCHANGED <<cache, pend, pipe, plog, procCount>>

\* What a failed events_from_tx_receipt does in the pending loop (193-200).
PendingFetchFailed(t, tx) ==
    /\ log' = Logged(t, "events_from_tx_receipt_err", tx, pend[t].bn, cache.timestamp)
    /\ pend' = [pend EXCEPT ![t].i = @ + 1]
    /\ UNCHANGED <<pc, res, cache, cacheLock, pipe, plog, procCount>>

\* One turn of `for tx_hash in txs` over the pending block (182-203).
IP_PendingTx(t) ==
    /\ pc[t] = "p_pending_loop"
    /\ pend[t].i <= Len(pend[t].txs)
    /\ LET tx == pend[t].txs[pend[t].i] IN
       IF is_tx_processed(cache, tx)
       THEN /\ pend' = [pend EXCEPT ![t].i = @ + 1]
            /\ UNCHANGED <<pc, res, cache, cacheLock, log, pipe, plog, procCount>>
       ELSE \/ \E evs \in EventLists :
                 /\ log' = Logged(t, "events_from_tx_receipt", tx, pend[t].bn, cache.timestamp)
                 /\ process_events(t, evs, pend[t].bn, cache.timestamp, "p_pending_ret")
                 /\ procCount' = Counted(tx)
                 /\ pend' = [pend EXCEPT ![t].tx = tx]
                 /\ pc' = [pc EXCEPT ![t] = "pe_loop"]
                 /\ UNCHANGED <<res, cache, cacheLock>>
            \/ PendingFetchFailed(t, tx)
    /\ UNCHANGED <<store, clsLock, chain, rng>>

\* process_events(..).await? returned; add_tx_as_processed (189-191).
IP_PendingRet(t) ==
    /\ pc[t] = "p_pending_ret"
    /\ IF pipe[t].result = "ok"
       THEN /\ cache' = add_tx_as_processed(cache, pend[t].tx)
            /\ pend' = [pend EXCEPT ![t].i = @ + 1]
            /\ pc' = [pc EXCEPT ![t] = "p_pending_loop"]
            /\ UNCHANGED <<res, cacheLock>>
       ELSE /\ IP_Return(t, pipe[t].result)
            /\ UNCHANGED <<cache, pend>>
    /\ pipe' = [pipe EXCEPT ![t] = NoPipe]
    /\ UNCHANGED <<store, clsLock, chain, rng, log, plog, procCount>>

\* Variant: the guard is dropped before the sleep.
IP_Sleep_Unlocked(t) ==
    /\ pc[t] = "p_pending_loop"
    /\ pend[t].i > Len(pend[t].txs)
    /\ pc' = [pc EXCEPT ![t] = "p_sleep"]
    /\ log' = Logged(t, "sleep", 0, 0, 0)
    /\ cacheLock' = NoTask
    /\ UNCHANGED <<store, cache, clsLock, chain, res, rng, pend, pipe, plog, procCount>>

\* tokio::time::sleep(3 s).await, the guard still alive (206).
IP_Sleep(t) ==
    /\ pc[t] = "p_pending_loop"
    /\ pend[t].i > Len(pend[t].txs)
    /\ pc' = [pc EXCEPT ![t] = "p_sleep"]
    /\ log' = Logged(t, "sleep", 0, 0, 0)
    /\ UNCHANGED <<store, cache, cacheLock, clsLock, chain, res, rng, pend, pipe,
                   plog, procCount>>

\* Variant: the guard outlives the loop body.
IP_Wake_KeepsGuard(t) ==
    /\ pc[t] = "p_sleep"
    /\ pc' = [pc EXCEPT ![t] = "p_lock"]
    /\ UNCHANGED <<store, cache, cacheLock, clsLock, chain, res, rng, pend, pipe, log,
                   plog, procCount>>

\* End of the loop body: the guard is dropped, next iteration (207, 88).
IP_Wake(t) ==
    /\ pc[t] = "p_sleep"
    /\ cacheLock' = NoTask
    /\ pc' = [pc EXCEPT ![t] = "p_lock"]
    /\ UNCHANGED <<store, cache, clsLock, chain, res, rng, pend, pipe, log, plog, procCount>>

PendingStep(t) ==
    \/ IP_Call(t) \/ IP_Lock(t) \/ IP_Poll(t) \/ IP_BlockNumber(t) \/ IP_Latest(t)
    \/ IP_Clean(t) \/ IP_LatestTx(t) \/ IP_LatestRet(t) \/ IP_Update(t)
    \/ IP_PendingTx(t) \/ IP_PendingRet(t) \/ IP_Sleep(t) \/ IP_Wake(t)

\* ------------------------------------------------------------------ Init
InitChain == [num |-> 0, lts |-> TsOf(0), ltxs |-> <<>>, pts |-> TsOf(1), ptxs |-> <<>>,
              next |-> 1, blk |-> [x \in Txs |-> 0]]

InitCommon ==
    /\ cache = PendingBlockData_new
    /\ cacheLock = NoTask
    /\ clsLock = NoTask
    /\ chain = InitChain
    /\ res = [t \in Tasks |-> "none"]
    /\ rng = [t \in Tasks |-> NoRange]
    /\ pend = [t \in Tasks |-> NoPend]
    /\ pipe = [t \in Tasks |-> NoPipe]
    /\ log = [t \in Tasks |-> <<>>]
    /\ plog = [t \in Tasks |-> <<>>]
    /\ procCount = [x \in Txs |-> 0]

\* One caller of index_block_range over a storage holding any prior statuses.
InitRange ==
    /\ InitCommon
    /\ store \in [Keys -> BlockInfos]
    /\ \A k \in Timestamps : store[k] = NoInfo
    /\ pc = [t \in Tasks |-> IF t = "range" THEN "r_idle" ELSE "off"]

\* One caller of index_pending over a fresh storage.
InitPending ==
    /\ InitCommon
    /\ store = [k \in Keys |-> NoInfo]
    /\ pc = [t \in Tasks |-> IF t = "pending" THEN "p_idle" ELSE "off"]

\* The engine runs one of its two public operations.
Init == InitRange \/ InitPending

Next ==
    \/ \E t \in Tasks : RangeStep(t) \/ PipeStep(t) \/ PendingStep(t)
    \/ ChainStep

Spec == Init /\ [][Next]_vars

\* ------------------------------------------- several tasks on one instance
\* One Pontos instance over a fresh storage, shared by two callers of
\* index_pending.
InitTwoPending ==
    /\ InitCommon
    /\ store = [k \in Keys |-> NoInfo]
    /\ pc = [t \in Tasks |-> IF t = "range" THEN "off" ELSE "p_idle"]

\* One Pontos instance over a fresh storage, shared by a caller of
\* index_block_range and a caller of index_pending.
InitMixed ==
    /\ InitCommon
    /\ store = [k \in Keys |-> NoInfo]
    /\ pc = [t \in Tasks |-> IF t = "range" THEN "r_idle"
                              ELSE IF t = "pending" THEN "p_idle" ELSE "off"]

InitConc == InitTwoPending \/ InitMixed

\* The inputs of the concurrent specification: ranges within 0..ConcBlock,
\* fetches of at most ConcEvents events, a chain of at most ConcTx transactions.
ConcInputs ==
    /\ chain.next <= ConcTx + 1
    /\ \A t \in Tasks :
          /\ rng[t].from <= ConcBlock /\ rng[t].to <= ConcBlock
          /\ Len(pipe[t].all) <= ConcEvents
          /\ \A i \in 1..Len(rng[t].groups) : Len(rng[t].groups[i]) <= ConcEvents

\* The steps of task t on inputs within the concurrent bounds.
ConcStep(t) ==
    \/ IBR_Call(t) /\ ConcInputs'
    \/ IBR_Break(t) /\ ConcInputs'
    \/ IBR_Skip(t) /\ ConcInputs'
    \/ IBR_SkipErr(t) /\ ConcInputs'
    \/ IBR_Begin(t) /\ ConcInputs'
    \/ IBR_SetProcessing(t) /\ ConcInputs'
    \/ IBR_BlockTime(t) /\ ConcInputs'
    \/ IBR_FetchEvents(t) /\ ConcInputs'
    \/ IBR_ProcessEvents(t) /\ ConcInputs'
    \/ IBR_EventsRet(t) /\ ConcInputs'
    \/ IBR_SetTerminated(t) /\ ConcInputs'
    \/ PE_Return(t) /\ ConcInputs'
    \/ PE_Acquire(t) /\ ConcInputs'
    \/ PE_Identify(t) /\ ConcInputs'
    \/ PE_Register(t) /\ ConcInputs'
    \/ PE_Token(t) /\ ConcInputs'
    \/ IP_Call(t) /\ ConcInputs'
    \/ IP_Lock(t) /\ ConcInputs'
    \/ IP_Poll(t) /\ ConcInputs'
    \/ IP_BlockNumber(t) /\ ConcInputs'
    \/ IP_Latest(t) /\ ConcInputs'
    \/ IP_Clean(t) /\ ConcInputs'
    \/ IP_LatestTx(t) /\ ConcInputs'
    \/ IP_LatestRet(t) /\ ConcInputs'
    \/ IP_Update(t) /\ ConcInputs'
    \/ IP_PendingTx(t) /\ ConcInputs'
    \/ IP_PendingRet(t) /\ ConcInputs'
    \/ IP_Sleep(t) /\ ConcInputs'
    \/ IP_Wake(t) /\ ConcInputs'

NextConc ==
    \/ \E t \in Tasks : ConcStep(t)
    \/ ChainStep /\ ConcInputs'

SpecConc == InitConc /\ [][NextConc]_vars

\* The inputs of the progress specification: those of the concurrent one, with
\* no call of the two public operations ending in an error.
LiveInputs ==
    /\ ConcInputs
    /\ \A t \in Tasks : res[t] \in {"none", "ok"}

\* The steps of task t when no call ends in an error (the failed status read
\* of IBR_SkipErr is not one of them).
LiveStep(t) ==
    \/ IBR_Call(t) /\ LiveInputs'
    \/ IBR_Break(t) /\ LiveInputs'
    \/ IBR_Skip(t) /\ LiveInputs'
    \/ IBR_Begin(t) /\ LiveInputs'
    \/ IBR_SetProcessing(t) /\ LiveInputs'
    \/ IBR_BlockTime(t) /\ LiveInputs'
    \/ IBR_FetchEvents(t) /\ LiveInputs'
    \/ IBR_ProcessEvents(t) /\ LiveInputs'
    \/ IBR_EventsRet(t) /\ LiveInputs'
    \/ IBR_SetTerminated(t) /\ LiveInputs'
    \/ PE_Return(t) /\ LiveInputs'
    \/ PE_Acquire(t) /\ LiveInputs'
    \/ PE_Identify(t) /\ LiveInputs'
    \/ PE_Register(t) /\ LiveInputs'
    \/ PE_Token(t) /\ LiveInputs'
    \/ IP_Call(t) /\ LiveInputs'
    \/ IP_Lock(t) /\ LiveInputs'
    \/ IP_Poll(t) /\ LiveInputs'
    \/ IP_BlockNumber(t) /\ LiveInputs'
    \/ IP_Latest(t) /\ LiveInputs'
    \/ IP_Clean(t) /\ LiveInputs'
    \/ IP_LatestTx(t) /\ LiveInputs'
    \/ IP_LatestRet(t) /\ LiveInputs'
    \/ IP_Update(t) /\ LiveInputs'
    \/ IP_PendingTx(t) /\ LiveInputs'
    \/ IP_PendingRet(t) /\ LiveInputs'
    \/ IP_Sleep(t) /\ LiveInputs'
    \/ IP_Wake(t) /\ LiveInputs'

NextLive ==
    \/ \E t \in Tasks : LiveStep(t)
    \/ ChainStep /\ LiveInputs'

\* Every collaborator call returns and the executor keeps polling every task;
\* tokio's RwLock queues its waiters in order of arrival, so a task waiting for
\* a lock that is released again and again gets it: a task that can take a step
\* again and again takes one.
Fairness == \A t \in Tasks : SF_vars(LiveStep(t))

SpecLive == InitConc /\ [][NextLive]_vars /\ Fairness

\* ================================================================ claims
InRange(t, n) == rng[t].from <= n /\ n <= rng[t].to
ReturnedOk(t) == pc[t] = "r_done" /\ res[t] = "ok"
TerminatedInfo == [status |-> "Terminated", version |-> IndexerVersion]
\* The calls the loop makes for a block it does not skip.
ProcessedOps == {"on_block_processing", "set_processing", "block_time", "fetch_events",
                 "set_terminated", "on_terminated"}
Processed(t, n) ==
    /\ ProcessedOps \subseteq rng[t].did[n]
    /\ ("has_events" \in rng[t].did[n] => "process_events" \in rng[t].did[n])
NoEffects(t) == \A n \in Blocks : rng[t].did[n] = {}

\* C1: after index_block_range(from, to, force) returns Ok, every block n of
\* [from, to] is Terminated under the engine's indexer version, whatever force
\* and the prior statuses were, and should_skip_indexing(n, version, false) holds.
C1_RangeTerminated ==
    \A t \in Tasks : ReturnedOk(t) =>
        \A n \in Blocks : InRange(t, n) =>
            /\ store[n] = TerminatedInfo
            /\ should_skip_indexing(store, n, IndexerVersion, FALSE)

\* C1 witness: a call over two or more blocks returned Ok after skipping one
\* block and processing another.
C1_Witness ==
    /\ ReturnedOk("range")
    /\ rng["range"].from < rng["range"].to
    /\ Processed("range", rng["range"].from)
    /\ rng["range"].did[rng["range"].to] = {}

\* C6: a second index_block_range over the same bounds with force=false, right
\* after one that returned Ok, makes no status write, no chain-client fetch, no
\* pipeline call and no observer notification, and returns Ok (its only other
\* exit is a failure of the status read itself).
C6_Idempotent ==
    \A t \in Tasks : (rng[t].again /\ ~rng[t].force) =>
        /\ NoEffects(t)
        /\ pc[t] \in {"r_loop", "r_done"}
        /\ (pc[t] = "r_done" => res[t] = "ok" \/ rng[t].failed = "should_skip_indexing")

\* C6 witness: the second call over a non-empty range has returned Ok.
C6_Witness ==
    /\ rng["range"].again /\ ~rng["range"].force
    /\ rng["range"].from < rng["range"].to
    /\ ReturnedOk("range")

\* C7: with force=true every block of [from, to] the loop has passed was
\* processed in full (Processing write, fetches, pipeline over the fetched
\* events, Terminated write), whatever its status and version before the call.
C7_Forcing ==
    \A t \in Tasks : (rng[t].force /\ pc[t] # "r_idle" /\ res[t] \in {"none", "ok"}) =>
        /\ \A n \in Blocks : (InRange(t, n) /\ (n < rng[t].cur \/ ReturnedOk(t))) =>
               Processed(t, n)
        /\ (ReturnedOk(t) => rng[t].cur > rng[t].to)

\* C7 witness: a forced call returned Ok over blocks that the previous call had
\* left Terminated under the current version.
C7_Witness ==
    /\ rng["range"].again /\ rng["range"].force
    /\ rng["range"].from < rng["range"].to
    /\ ReturnedOk("range")

\* The second components of the entries of l whose operation is st, in order.
StageEvents(l, st) ==
    LET sel == SelectSeq(l, LAMBDA e : e[1] = st) IN [i \in 1..Len(sel) |-> sel[i][2]]
InPipeline(t) == pc[t] \in {"pe_loop", "pe_identify", "pe_register", "pe_token"}
PipelineCallers == {"r_events_ret", "p_latest_ret", "p_pending_ret"}
Relevant == ContractTypes \ {"Other"}

\* C8: whatever identify_contract, format_and_register_event and
\* format_and_register_token answer, process_events hands every event of the
\* list to classification in the delivered order and returns Ok, so neither the
\* enclosing block nor the enclosing tick is aborted by it.
C8_PipelineIsolation ==
    \A t \in Tasks :
        /\ pipe[t].result \in {"none", "ok"}
        /\ (pc[t] \in PipelineCallers =>
               pipe[t].result = "ok" /\ pipe[t].seen = pipe[t].all)
        /\ (pc[t] = "pe_loop" => pipe[t].seen \o pipe[t].evs = pipe[t].all)
        /\ (InPipeline(t) => res[t] = "none")
        /\ (rng[t].failed # "process_events")

\* C8 witness: a two-event list is exhausted, a stage failed on the first event
\* and the second was classified all the same.
C8_Witness ==
    \E t \in Tasks :
        /\ pc[t] = "pe_loop" /\ pipe[t].evs = <<>> /\ Len(pipe[t].all) = 2
        /\ pipe[t].firstFail = 1
        /\ pipe[t].seen = <<1, 2>>

\* C9: for each event, format_and_register_event is called exactly when its
\* classification succeeded with a type other than Other, and
\* format_and_register_token only with the token event a successful
\* format_and_register_event returned for that same event.
C9_StageGating ==
    \A t \in Tasks : LET l == plog[t] IN
        /\ \A i \in 1..Len(l) :
            /\ l[i][2] = pipe[t].ev
            /\ l[i][1] = (IF i = 1 THEN "identify" ELSE IF i = 2 THEN "register" ELSE "token")
            /\ (l[i][1] = "register" => l[i-1][3] \in Relevant)
            /\ (l[i][1] = "token" => l[i-1] = <<"register", l[i][2], "Ok">>)
        /\ Len(l) <= 3
        /\ ((Len(l) = 1 /\ l[1][3] \in Relevant) => pc[t] = "pe_register")
        /\ ((Len(l) = 1 /\ l[1][3] \notin Relevant) => pc[t] = "pe_loop")
        /\ (pc[t] = "pe_register" => Len(l) = 1)

\* C9 witness: the last event of a two-event list came from an Other contract
\* and was dropped without a registrar call.
C9_Witness ==
    \E t \in Tasks :
        /\ pc[t] = "pe_loop" /\ pipe[t].evs = <<>> /\ Len(pipe[t].all) = 2
        /\ plog[t] = <<<<"identify", 2, "Other">>>>

\* Task t is a caller of index_block_range.
RunsRange(t) ==
    \/ pc[t] \in {"r_idle", "r_loop", "r_processing", "r_block_time", "r_fetch_events",
                  "r_events", "r_events_ret", "r_done", "r_panic"}
    \/ InPipeline(t) /\ pipe[t].ret = "r_events_ret"

\* C10 as claimed: no storage failure of a manager operation ends
\* index_block_range.
C10_StorageNeverAborts ==
    \A t \in Tasks : RunsRange(t) => ~(pc[t] = "r_done" /\ res[t] = "storage")

\* C10 amended: a failure of event or token registration is skipped per event
\* and never ends index_block_range, while a failed block status read or write
\* (should_skip_indexing, set_block_info) ends it with a storage error.
C10_StorageFailures ==
    \A t \in Tasks : RunsRange(t) =>
        /\ (res[t] = "storage" <=>
               rng[t].failed \in {"should_skip_indexing", "set_block_info"})
        /\ (rng[t].failed \in {"should_skip_indexing", "set_block_info"} =>
               pc[t] = "r_done")
        /\ ((pipe[t].firstFail # 0 /\ pipe[t].ret = "r_events_ret")
            => res[t] = "none" /\ rng[t].failed = "none")
        /\ (pc[t] = "r_events_ret" => pipe[t].result = "ok")

\* C10 witness: a status write failed with blocks of the range still ahead.
C10_Witness ==
    /\ pc["range"] = "r_done" /\ res["range"] = "storage"
    /\ rng["range"].failed = "set_block_info"
    /\ rng["range"].cur < rng["range"].to

\* ------------------------------------------------------- pending-tail claims
Ops(l, ops) == {i \in 1..Len(l) : l[i][1] \in ops}
Elems(q) == {q[i] : i \in 1..Len(q)}
FetchOps == {"events_from_tx_receipt", "events_from_tx_receipt_err"}
\* Entry i of l was made by the pending loop (182-203), not the latest-block loop.
PendingPhase(l, i) ==
    \/ \A j \in 1..i : l[j][1] # "block_txs_hashes_latest"
    \/ \E j \in 1..i : l[j][1] = "update_last_pending_block"
\* The cache at the top of the iteration tracked a pending block.
Tracked(t) == pend[t].cache0.timestamp # 0

\* C2: when the cache tracks T1 with processed set P, the poll observes T2 # T1
\* and the latest block has timestamp T1, the iteration fetches and processes
\* exactly the latest-block transactions not in P, each once and in order,
\* calls update_last_pending_block(resolved number, T1), then switches the cache
\* to T2 with an empty processed set; every transaction of T1 has then been
\* processed exactly once, and none is ever processed twice.
C2_Rollover ==
    /\ \A x \in Txs : procCount[x] <= 1
    /\ \A t \in Tasks : pend[t].rolled =>
        LET l == log[t]
            u == CHOOSE i \in 1..Len(l) : l[i][1] = "update_last_pending_block"
            before == SubSeq(l, 1, u - 1)
            P == pend[t].cache0.txs
        IN  /\ Cardinality(Ops(l, {"update_last_pending_block"})) = 1
            /\ Tracked(t)
            /\ pend[t].ts # pend[t].cache0.timestamp
            /\ pend[t].lts = pend[t].cache0.timestamp
            /\ StageEvents(before, "events_from_tx_receipt")
                   = SelectSeq(pend[t].ltxs, LAMBDA x : x \notin P)
            /\ Ops(before, {"events_from_tx_receipt_err"}) = {}
            /\ \A i \in Ops(before, {"events_from_tx_receipt"}) :
                   l[i][3] = l[u][3] /\ l[i][4] = pend[t].lts
            /\ l[u][4] = pend[t].cache0.timestamp
            /\ \E j \in 1..(u - 1) : l[j] = <<"block_number", 0, l[u][3], 0>>
            /\ (u = Len(l) => cache = [timestamp |-> pend[t].ts, txs |-> {}])
            /\ cache.timestamp = pend[t].ts
            /\ \A x \in Elems(pend[t].ltxs) : procCount[x] = 1

\* C2 witness: a rollover has just been resolved where part of the latest block
\* had been processed while it was pending and part was processed now.
C2_Witness ==
    \E t \in Tasks :
        /\ pend[t].rolled /\ pc[t] = "p_pending_loop" /\ pend[t].i = 1
        /\ pend[t].cache0.txs # {}
        /\ Elems(pend[t].ltxs) \ pend[t].cache0.txs # {}

\* C3: when the observed pending timestamp and the re-fetched latest timestamp
\* both differ from the cached one, the iteration calls clean_block with the
\* cached timestamp, resets the cache to timestamp 0 with no hashes, and makes
\* no events_from_tx_receipt, pipeline or update_last_pending_block call; the
\* following iteration adopts the timestamp it observes and processes that
\* pending block's transactions.
C3_Desync ==
    \A t \in Tasks : LET l == log[t] IN
        /\ EndedInCleanup(l) =>
              /\ Tracked(t)
              /\ pend[t].ts # pend[t].cache0.timestamp
              /\ pend[t].lts # pend[t].cache0.timestamp
              /\ l[Len(l)] = <<"clean_block", 0, 0, pend[t].cache0.timestamp>>
              /\ store[pend[t].cache0.timestamp] = NoInfo
              /\ cache = PendingBlockData_new
              /\ Ops(l, FetchOps \cup {"update_last_pending_block"}) = {}
              /\ pc[t] = "p_lock" /\ cacheLock # t
        /\ (pend[t].desynced /\ pend[t].ts # 0) =>
              /\ cache.timestamp = pend[t].ts
              /\ Ops(l, {"block_number", "block_txs_hashes_latest", "clean_block"}) = {}
              /\ pc[t] \in {"p_pending_loop", "p_pending_ret", "p_sleep", "p_lock",
                            "pe_loop", "pe_identify", "pe_register", "pe_token"}
              /\ (pc[t] = "p_sleep" =>
                     \A x \in Elems(pend[t].txs) :
                         x \in cache.txs \/ \E i \in Ops(l, FetchOps) : l[i][2] = x)

\* C3 witness: the iteration after a cleanup has adopted the pending block it
\* observed and processed a transaction of it.
C3_Witness ==
    \E t \in Tasks :
        /\ pend[t].desynced /\ pc[t] = "p_sleep"
        /\ pend[t].cache0 = PendingBlockData_new
        /\ cache.timestamp = pend[t].ts /\ cache.txs # {}

\* C4: a failed events_from_tx_receipt in the pending loop does not end
\* index_pending and does not mark the hash processed; the remaining
\* transactions of the tick are still handled; a hash that failed is fetched
\* again in the next tick that lists it; a hash is in the processed set only
\* after a successful fetch.
C4_PendingRetry ==
    \A t \in Tasks : LET l == log[t] IN
        /\ \A i \in Ops(l, {"events_from_tx_receipt_err"}) : PendingPhase(l, i) =>
               /\ pc[t] # "p_done" /\ res[t] = "none"
               /\ l[i][2] \notin cache.txs
        /\ (pc[t] = "p_sleep" =>
               \A x \in Elems(pend[t].txs) :
                   \/ x \in cache.txs
                   \/ \E i \in Ops(l, {"events_from_tx_receipt_err"}) : l[i][2] = x)
        /\ (pc[t] = "p_sleep" =>
               \A x \in pend[t].failedPrev \cap Elems(pend[t].txs) :
                   \E i \in Ops(l, FetchOps) : l[i][2] = x /\ PendingPhase(l, i))
        /\ \A x \in cache.txs : procCount[x] >= 1

\* C4 witness: a tick ends in which a hash that failed in the previous tick was
\* fetched again with success and a later hash of the list was handled too.
C4_Witness ==
    \E t \in Tasks : LET l == log[t] IN
        /\ pc[t] = "p_sleep"
        /\ \E x \in pend[t].failedPrev :
              /\ \E i \in Ops(l, {"events_from_tx_receipt"}) : l[i][2] = x
              /\ x \in cache.txs
              /\ \E k \in 1..Len(pend[t].txs) : pend[t].txs[k] = x /\ k < Len(pend[t].txs)

\* C5: a failed events_from_tx_receipt in the latest-block loop of a rollover
\* ends index_pending with the error at once: it is the last call of the
\* iteration, update_last_pending_block is not called and the cache keeps the
\* old timestamp.
C5_LatestFetchFatal ==
    \A t \in Tasks : LET l == log[t] IN
        \A i \in Ops(l, {"events_from_tx_receipt_err"}) : ~PendingPhase(l, i) =>
            /\ i = Len(l)
            /\ pc[t] \in {"p_done", "p_lock"}
            /\ (pc[t] = "p_done" => res[t] = "anyhow")
            /\ cacheLock # t
            /\ Ops(l, {"update_last_pending_block"}) = {}
            /\ ~pend[t].rolled
            /\ cache.timestamp = pend[t].cache0.timestamp
            /\ cache.timestamp # pend[t].ts

\* C5 witness: index_pending returned the error of a latest-block transaction
\* with a further transaction of that block still unfetched.
C5_Witness ==
    \E t \in Tasks : LET l == log[t] IN
        /\ pc[t] = "p_done" /\ res[t] = "anyhow"
        /\ l # <<>> /\ l[Len(l)][1] = "events_from_tx_receipt_err"
        /\ ~PendingPhase(l, Len(l))
        /\ pend[t].i < Len(pend[t].ltxs)

\* ------------------------------------------------------ range-loop claims
\* The call of task t got past the resolution of its two bounds.
Resolved(t) == RunsRange(t) /\ pc[t] # "r_idle" /\ rng[t].failed # "block_id_to_u64"

\* C11: for all resolved bounds from and to of the counter's range, the largest
\* counter value included, the loop of index_block_range visits only blocks of
\* [from, to], each at most once and in strictly ascending order, never stops
\* on the counter itself, leaves with Ok right past `to`, and leaves at once
\* without any effect when from > to.
C11_TerminatesAtUpperBound ==
    \A t \in Tasks : Resolved(t) =>
        /\ pc[t] # "r_panic"
        /\ rng[t].asc
        /\ (rng[t].last # -1 => InRange(t, rng[t].last))
        /\ \A n \in Blocks : rng[t].did[n] # {} => InRange(t, n)
        /\ (ReturnedOk(t) => rng[t].cur = IF rng[t].from <= rng[t].to
                                        THEN rng[t].to + 1 ELSE rng[t].from)
        /\ (rng[t].from > rng[t].to =>
               /\ NoEffects(t) /\ rng[t].last = -1
               /\ pc[t] \in {"r_loop", "r_done"}
               /\ (pc[t] = "r_done" => res[t] = "ok"))

\* C11, below the largest counter value: the same statement for to < MaxU64.
C11_TerminatesBelowMax ==
    \A t \in Tasks : (Resolved(t) /\ rng[t].to < MaxU64) =>
        /\ pc[t] # "r_panic"
        /\ rng[t].asc
        /\ (rng[t].last # -1 => InRange(t, rng[t].last))
        /\ \A n \in Blocks : rng[t].did[n] # {} => InRange(t, n)
        /\ (rng[t].from <= rng[t].to => rng[t].cur <= rng[t].to + 1)
        /\ (ReturnedOk(t) => rng[t].cur = IF rng[t].from <= rng[t].to
                                        THEN rng[t].to + 1 ELSE rng[t].from)
        /\ (rng[t].from > rng[t].to =>
               /\ NoEffects(t) /\ rng[t].last = -1
               /\ pc[t] \in {"r_loop", "r_done"}
               /\ (pc[t] = "r_done" => res[t] = "ok"))

\* C14: the Processing status of block n is written before any chain-client
\* fetch for n; when block_time or fetch_events fails for n, index_block_range
\* returns the error with n left Processing under the engine's version, every
\* block of the range below n Terminated, and (the counter not being at its
\* largest value, see C11) nothing written, fetched or notified for any block
\* above n.
C14_ProcessingBeforeFetch ==
    \A t \in Tasks : RunsRange(t) =>
        /\ \A n \in Blocks :
               rng[t].did[n] \cap {"block_time", "fetch_events"} # {}
                   => "set_processing" \in rng[t].did[n]
        /\ (pc[t] \in {"r_block_time", "r_fetch_events"} =>
               store[rng[t].cur] = [status |-> "Processing", version |-> IndexerVersion])
        /\ ((pc[t] = "r_done" /\ rng[t].failed \in {"block_time", "fetch_events"}) =>
               /\ res[t] = "anyhow"
               /\ store[rng[t].cur] = [status |-> "Processing", version |-> IndexerVersion]
               /\ \A m \in Blocks : (InRange(t, m) /\ m < rng[t].cur) =>
                      store[m] = TerminatedInfo
               /\ (rng[t].to < MaxU64 =>
                      \A m \in Blocks : m > rng[t].cur => rng[t].did[m] = {}))

\* C14 witness: fetch_events failed on a block in the middle of the range, the
\* block before it processed and a block after it still ahead.
C14_Witness ==
    /\ pc["range"] = "r_done" /\ rng["range"].failed = "fetch_events"
    /\ rng["range"].from < rng["range"].cur /\ rng["range"].cur < rng["range"].to
    /\ store[rng["range"].cur].status = "Processing"
    /\ Processed("range", rng["range"].from)

\* C11 witness: with to the largest counter value, the loop is back at a block
\* it has already terminated.
C11_Witness ==
    /\ rng["range"].to = MaxU64
    /\ ~rng["range"].asc
    /\ "on_terminated" \in rng["range"].did[rng["range"].last]

\* ------------------------------------------------------ pending cache claims
\* C13: in every state every hash of the cache's processed set is a transaction
\* of the block whose timestamp the cache holds (an uninitialized cache holds
\* none), and every step that changes the cache's timestamp (adoption, desync
\* reset, rollover switch) leaves the processed set empty.
C13_CacheInvariant ==
    /\ [](/\ \A x \in cache.txs : chain.blk[x] = cache.timestamp
          /\ (cache.timestamp = 0 => cache.txs = {}))
    /\ [][cache'.timestamp # cache.timestamp => cache'.txs = {}]_vars

\* C13 witness: after a rollover whose block had processed hashes, the cache
\* tracks the new pending block and holds a hash of it.
C13_Witness ==
    \E t \in Tasks :
        /\ pend[t].rolled /\ pend[t].cache0.txs # {}
        /\ cache.timestamp = pend[t].ts /\ cache.txs # {}

\* ------------------------------------------------- pending-tail order claims
\* The number block_number() answered in the iteration logged in l.
ResolvedNumber(l) == l[CHOOSE i \in 1..Len(l) : l[i][1] = "block_number"][3]

\* C15: within one iteration every fetch for the latest block is made, and run
\* through the pipeline, with the resolved latest number and the latest
\* timestamp and before update_last_pending_block; every fetch for the observed
\* pending block comes after a successful update_last_pending_block (when there
\* was a rollover), after every unprocessed latest transaction was fetched, and
\* is run with the pending timestamp as both block number and timestamp.
C15_RolloverFirst ==
    \A t \in Tasks : LET l == log[t] IN
        /\ \A i \in Ops(l, FetchOps) :
              IF PendingPhase(l, i)
              THEN /\ l[i][3] = pend[t].ts /\ l[i][4] = pend[t].ts
                   /\ l[i][2] \in Elems(pend[t].txs)
                   /\ (Ops(l, {"block_txs_hashes_latest"}) # {} =>
                          /\ pend[t].rolled
                          /\ \A x \in Elems(pend[t].ltxs) :
                                 \/ x \in pend[t].cache0.txs
                                 \/ \E j \in 1..(i - 1) :
                                        /\ l[j] = <<"events_from_tx_receipt", x,
                                                    ResolvedNumber(l), pend[t].lts>>
                                        /\ ~PendingPhase(l, j))
              ELSE /\ l[i][3] = ResolvedNumber(l) /\ l[i][4] = pend[t].lts
                   /\ l[i][2] \in Elems(pend[t].ltxs)
        /\ (InPipeline(t) /\ pipe[t].ret = "p_latest_ret" =>
               /\ pipe[t].bn = ResolvedNumber(l) /\ pipe[t].ts = pend[t].lts
               /\ Ops(l, {"update_last_pending_block"}) = {})
        /\ (InPipeline(t) /\ pipe[t].ret = "p_pending_ret" =>
               /\ pipe[t].bn = pend[t].ts /\ pipe[t].ts = pend[t].ts
               /\ cache.timestamp = pend[t].ts)

\* C15 witness: in one iteration a latest-block transaction was processed, the
\* rollover recorded, and then a transaction of the new pending block processed.
C15_Witness ==
    \E t \in Tasks : LET l == log[t] IN
        /\ pend[t].rolled /\ pc[t] = "p_pending_loop"
        /\ \E i, u, j \in 1..Len(l) :
              /\ i < u /\ u < j
              /\ l[i][1] = "events_from_tx_receipt"
              /\ l[u][1] = "update_last_pending_block"
              /\ l[j][1] = "events_from_tx_receipt"
        /\ cache.txs # {}

C19_RolloverLabel ==
    \A t \in Tasks : LET l == log[t] IN
        /\ \A u \in Ops(l, {"update_last_pending_block"}) :
              /\ l[u][3] \in 1..chain.num
              /\ l[u][4] = TsOf(l[u][3])
              /\ l[u][4] = pend[t].cache0.timestamp
              /\ \A x \in Elems(pend[t].ltxs) : chain.blk[x] = l[u][4]
        /\ \A i, j \in 1..Len(l) :
              (/\ l[i][1] = "block_number" /\ l[j][1] = "block_txs_hashes_latest"
               /\ l[j][4] # TsOf(l[i][3]))
              => Ops(l, {"update_last_pending_block"}) = {}

\* C19 witness: a rollover was recorded in an iteration during which the chain
\* moved on after the poll.
C19_Witness ==
    \E t \in Tasks :
        /\ pend[t].rolled /\ Ops(log[t], {"update_last_pending_block"}) # {}
        /\ chain.ptxs # pend[t].txs
        /\ pend[t].ltxs # <<>>

\* C20: when index_pending returns an error while processing the latest block
\* the cache keeps its timestamp and every hash processed so far; the next call
\* that finds the same latest block fetches and processes exactly the
\* transactions not yet processed, no transaction is processed twice, and the
\* block is then recorded Terminated.
C20_ResumedRollover ==
    /\ \A x \in Txs : procCount[x] <= 1
    /\ \A t \in Tasks : LET l == log[t] IN
        /\ (pc[t] = "p_done" /\ AbortedRollover(l, pend[t].cache0)) =>
              /\ res[t] \in {"anyhow", "storage"}
              /\ cache.timestamp = pend[t].cache0.timestamp
              /\ cache.txs = pend[t].cache0.txs
                                \cup {l[i][2] : i \in Ops(l, {"events_from_tx_receipt"})}
        /\ (pend[t].resumed /\ pend[t].rolled) =>
              LET u == CHOOSE i \in 1..Len(l) : l[i][1] = "update_last_pending_block"
                  before == SubSeq(l, 1, u - 1)
              IN  /\ pend[t].lts = pend[t].cache0.timestamp
                  /\ StageEvents(before, "events_from_tx_receipt")
                         = SelectSeq(pend[t].ltxs, LAMBDA x : x \notin pend[t].cache0.txs)
                  /\ \A x \in Elems(pend[t].ltxs) : procCount[x] = 1
                  /\ store[l[u][3]] = TerminatedInfo

\* C20 witness: a call resumed a rollover an earlier call had left after
\* processing part of the block, and finished it by processing the rest.
C20_Witness ==
    \E t \in Tasks :
        /\ pend[t].resumed /\ pend[t].rolled /\ pend[t].iter = 1
        /\ pend[t].cache0.txs # {}
        /\ Elems(pend[t].ltxs) \ pend[t].cache0.txs # {}

\* ------------------------------------------------------ concurrency claims
\* Task t is between the lock acquisition of line 89 and the end of that
\* iteration (the end of the loop body, the `continue`, or an error return).
InIteration(t) ==
    \/ pc[t] \in {"p_poll", "p_blocknum", "p_latest", "p_clean", "p_latest_loop",
                  "p_latest_ret", "p_pending_loop", "p_pending_ret", "p_sleep"}
    \/ InPipeline(t) /\ pipe[t].ret \in {"p_latest_ret", "p_pending_ret"}

\* C12: with several tasks running index_pending on one instance, at most one
\* of them is inside an iteration (it is the holder of the cache lock), and while
\* a task stays inside its iteration every change of the cache is a step of
\* that task.
C12_OneIteration ==
    /\ [](/\ \A t \in Tasks : InIteration(t) <=> cacheLock = t
          /\ \A t1, t2 \in Tasks : (InIteration(t1) /\ InIteration(t2)) => t1 = t2)
    /\ [][\A t \in Tasks : (InIteration(t) /\ cache' # cache) =>
             (pc'[t] # pc[t] \/ pend'[t] # pend[t])]_vars

\* C12 witness: one task is in the middle of an iteration, in the pipeline,
\* while the other, which has completed an iteration before, waits for the lock.
C12_Witness ==
    /\ InPipeline("pending2") /\ cacheLock = "pending2" /\ pend["pending2"].iter = 2
    /\ pc["pending"] = "p_lock" /\ EndedInSleep(log["pending"])

\* C17: at most one identify_contract call is in progress at any time; the
\* classifier lock is held exactly by the task inside that call, so it is not
\* held while format_and_register_event or format_and_register_token runs.
C17_ClassifierSerialized ==
    /\ Cardinality({t \in Tasks : pc[t] = "pe_identify"}) <= 1
    /\ \A t \in Tasks : pc[t] = "pe_identify" <=> clsLock = t
    /\ clsLock \in Tasks \cup {NoTask}
    /\ \A t \in Tasks : pc[t] \in {"pe_register", "pe_token"} => clsLock # t

\* C17 witness: the range task classifies a contract while the pending task,
\* past its own classification, registers an event.
C17_Witness ==
    /\ pc["range"] = "pe_identify" /\ clsLock = "range"
    /\ pc["pending"] = "pe_register"

\* Task t waits for the pending cache lock, or for the classifier lock.
WaitsCache(t) == pc[t] = "p_lock"
WaitsClassifier(t) == pc[t] = "pe_loop" /\ pipe[t].evs # <<>>
Blocked(t) ==
    \/ WaitsCache(t) /\ cacheLock # NoTask
    \/ WaitsClassifier(t) /\ clsLock # NoTask

\* C18: the holder of the classifier lock waits for no lock, the holder of the
\* cache lock waits at most for the classifier lock, in no state are all
\* running tasks blocked on a lock, and every task that waits for a lock
\* eventually holds it (it stops waiting only by acquiring the lock, and it
\* does not wait forever).
C18_NoDeadlock ==
    /\ [](/\ \A t \in Tasks : clsLock = t => pc[t] = "pe_identify"
          /\ \A t \in Tasks : cacheLock = t => InIteration(t) /\ ~WaitsCache(t)
          /\ \E t \in Tasks : pc[t] # "off" /\ ~Blocked(t))
    /\ [][\A t \in Tasks :
             /\ (WaitsCache(t) /\ ~WaitsCache(t)') => cacheLock' = t
             /\ (WaitsClassifier(t) /\ ~WaitsClassifier(t)') => clsLock' = t]_vars
    /\ \A t \in Tasks : []<>(~WaitsCache(t))
    /\ \A t \in Tasks : []<>(~WaitsClassifier(t))

\* C18 witness: a task holding the cache lock waits for the classifier lock,
\* which another task holds.
C18_Witness ==
    \E t1, t2 \in Tasks :
        /\ cacheLock = t1 /\ WaitsClassifier(t1)
        /\ clsLock = t2 /\ t2 # t1

====
